---------------------------- MODULE Spec2Model ----------------------------
(***************************************************************************)
(* Single-frame RTSP capture (camara/sacarfoto/sacarfoto.py).              *)
(*                                                                         *)
(* One run of main(): a deadline is created, try_opencv_capture walks the  *)
(* backend list (construct handle, poll isOpened, poll read, imwrite),     *)
(* and try_ffmpeg_capture runs the ffmpeg child as a fallback.             *)
(*                                                                         *)
(* Time is counted in ticks of 0.05 s: 0.05 s = 1, 0.1 s = 2, 0.15 s = 3,  *)
(* 1.5 s = 30.  The clock (time.time()) advances in time.sleep, in the     *)
(* bounded wait of subprocess.run, and by a bounded latency of             *)
(* shutil.which, the call that sits between the budget check of main and   *)
(* the budget check of try_ffmpeg_capture.  accounted is the part of the   *)
(* elapsed time spent in the poll sleeps and in the child wait.            *)
(***************************************************************************)
EXTENDS Integers, Sequences, FiniteSets

\* ---- program constants (ticks of 0.05 s) --------------------------------
EPS == 1                 \* 0.05 s, the "no time left" threshold
OPEN_POLL == 3           \* time.sleep(0.15) in the open loop
READ_POLL == 2           \* time.sleep(0.1) in the read loop
READ_WINDOW_MAX == 30    \* min(1.5, eff_timeout)
DEFAULT_TOTAL == 140     \* CAPTURE_TIMEOUT_TOTAL default "7"
DEFAULT_OPENCV == 60     \* CAPTURE_TIMEOUT_OPENCV default "3"
DEFAULT_FFMPEG == 80     \* CAPTURE_TIMEOUT_FFMPEG default "4"
RW_TIMEOUT == 40         \* "-rw_timeout", "2000000": 2 s of network I/O

\* ---- bounds of the model ------------------------------------------------
MaxCallDelay == 1        \* latency of shutil.which, in ticks
MaxWindow == 8           \* largest watchdog window of the systematic family
MaxSetBack == 2          \* largest step back of the system clock, in ticks
MaxSetBacks == 1         \* adjustments of the system clock during one run
MaxSegments == 6         \* pieces a URL text is put together from

CallDelays == 0..MaxCallDelay

\* Values <<total, opencv, ffmpeg>> of the three environment overrides
\* (CAPTURE_TIMEOUT_TOTAL, _OPENCV, _FFMPEG) that are explored:
\*   the defaults (7 s, 3 s, 4 s);
\*   2 s, 1.8 s, 0.3 s: a backend timeout above 1.5 s, so the read window is 1.5 s;
\*   1 s, 0.2 s, 0.3 s: three backends can time out and leave 0.1 s of budget;
\*   0.6 s, 1.8 s, 0.05 s: a backend timeout above the whole window, a process
\*     timeout at the threshold;
\*   every window from 0 to MaxWindow ticks with backend timeouts of 0.05 s,
\*     0.1 s and 0.2 s and process timeouts of 0.05 s and 0.15 s.
Configs ==
  { <<DEFAULT_TOTAL, DEFAULT_OPENCV, DEFAULT_FFMPEG>>,
    <<40, 36, 6>>, <<20, 4, 6>>, <<12, 36, 1>> }
  \cup { <<w, t, f>> : w \in 0..MaxWindow, t \in {EPS, 2, 4}, f \in {EPS, 3} }

\* how long the child ran when it exited by itself within eff_timeout: at
\* once, or at the very end of the bounded wait
ChildRunTimes(eff) == {0, eff}

\* hasattr(cv2, "CAP_FFMPEG") / hasattr(cv2, "CAP_GSTREAMER"); None is "default"
BackendLists_NoDefault ==
  { <<"FFMPEG", "GSTREAMER">>, <<"FFMPEG">>, <<"GSTREAMER">>, << >> }
BackendLists_DefaultFirst ==
  { <<"default", "FFMPEG", "GSTREAMER">>, <<"default", "FFMPEG">>,
    <<"default", "GSTREAMER">>, <<"default">> }
BackendLists ==
  { <<"FFMPEG", "GSTREAMER", "default">>, <<"FFMPEG", "default">>,
    <<"GSTREAMER", "default">>, <<"default">> }

VARIABLES
  MAX_TOTAL_SECONDS, OPENCV_TIMEOUT_SEC, FFMPEG_TIMEOUT_SEC,  \* configuration
  pc,            \* control point of the run
  now,           \* time.time()
  accounted,     \* time spent so far in poll sleeps and the child wait
  deadline,      \* main: deadline
  backends, bi,  \* try_opencv_capture: the list and the loop index
  eff_timeout, start, read_window, read_start,
  handles,       \* indexes of backends whose cap is constructed, not released
  child,         \* "none" | "running" | "exited" | "killed"
  outFile,       \* output_path: "absent" | "old" (of an earlier run) |
                 \* "partial" (left by a failed imwrite) |
                 \* "childPartial" (incomplete, by the child) | "new"
  ok,            \* main: ok
  proc,          \* what subprocess.run observed: returncode, stderr marker
  exitCode,      \* exit status of the interpreter, -1 while it runs
  marker,        \* the stdout marker printed: "none" | "OK" | "ERROR"
  raw,           \* the text cargar_rtsp returned, a sequence of characters
  rtsp,          \* the variable rtsp of sanitize_rtsp
  hist           \* history of the run (observation only)

config == <<MAX_TOTAL_SECONDS, OPENCV_TIMEOUT_SEC, FFMPEG_TIMEOUT_SEC>>
timers == <<eff_timeout, start, read_window, read_start>>
locals == <<backends, bi, timers>>
output == <<exitCode, marker>>
url == <<raw, rtsp>>
vars == <<config, pc, now, accounted, deadline, locals, handles, child,
          outFile, ok, proc, output, url, hist>>

Min(a, b) == IF a <= b THEN a ELSE b
Max(a, b) == IF a >= b THEN a ELSE b

\* remaining_time(deadline) at clock value t
remaining_at_NoClamp(d, t) == d - t
remaining_at(d, t) == Max(0, d - t)
remaining_time(d) == remaining_at(d, now)

\* eff_timeout = min(timeout, remaining_time(deadline))
EffTimeout_NoCap(timeout, rem) == timeout
EffTimeout(timeout, rem) == Min(timeout, rem)

\* read_window = min(1.5, eff_timeout)
ReadWindow_Fixed(eff) == READ_WINDOW_MAX
ReadWindow(eff) == Min(READ_WINDOW_MAX, eff)

\* while time.time() - start < eff_timeout
WindowOpen_Inclusive(t, s, w) == t - s <= w
WindowOpen(t, s, w) == t - s < w

\* time.sleep(secs) entered at clock value t returns at t + secs
Sleep_NoWait(t, secs) == t
Sleep(t, secs) == t + secs

\* the guards "<= 0.05: return False"
Exhausted_Zero(x) == x <= 0
Exhausted_Never(x) == x < 0
Exhausted(x) == x <= EPS

\* main: if not ok and remaining_time(deadline) > 0.05
FallbackWanted_Late(ok_, rem) == ~ok_ /\ rem > EPS + 1
FallbackWanted(ok_, rem) == ~ok_ /\ rem > EPS

\* os.path.exists(output_path)
Exists(f) == f # "absent"

\* try_ffmpeg_capture: the result once the child has exited
ProcessResult_IgnoreFile(rc, unauthorized, f) ==
  IF unauthorized THEN FALSE ELSE rc = 0
ProcessResult_ExitCodeOnly(rc, unauthorized, f) == rc = 0 /\ Exists(f)
ProcessResult(rc, unauthorized, f) ==
  IF unauthorized THEN FALSE ELSE rc = 0 /\ Exists(f)

\* for backend in backends: continue, or the end of the body, moves on to
\* the next element of the list
NextBackend_Retry(i) == i
NextBackend(i) == i + 1

\* cap.release() on the open-timeout path
ReleaseOnOpenTimeout_Skip(hs, b) == hs
ReleaseOnOpenTimeout(hs, b) == hs \ {b}

\* cap.release() on the other paths
Release_Skip(hs, b) == hs
Release(hs, b) == hs \ {b}

\* subprocess.run on TimeoutExpired: the child is killed and waited for
AfterProcessTimeout_NoKill == "running"
AfterProcessTimeout == "killed"

\* main: if ok and os.path.exists(output_path)
FinalState_OkOnly(ok_, f) == IF ok_ THEN "OK" ELSE "ERROR"
FinalState_ExistsOnly(ok_, f) == IF Exists(f) THEN "OK" ELSE "ERROR"
FinalState(ok_, f) == IF ok_ /\ Exists(f) THEN "OK" ELSE "ERROR"

\* print("OK"); sys.exit(0)  /  print("ERROR"); sys.exit(1)
ExitCodeOf(m) == IF m = "OK" THEN 0 ELSE 1

\* an exception nobody catches: traceback on stderr, exit status 1
UncaughtException ==
  /\ pc' = "CRASH"
  /\ exitCode' = 1
  /\ UNCHANGED marker

NoProc == [exited |-> FALSE, timedOut |-> FALSE, rc |-> 0, unauthorized |-> FALSE]

NoHist ==
  [ attempts |-> << >>,    \* backends whose handle was constructed, "process"
    outcomes |-> << >>,    \* classification of each backend iteration
    wroteAt |-> 0,         \* Len(attempts) when imwrite wrote the frame
    ffCalls |-> 0,         \* invocations of try_ffmpeg_capture
    spawned |-> 0,         \* child processes created
    streamRem |-> -1,      \* remaining budget when try_opencv_capture returned
    mainRem |-> -1,        \* remaining budget at the check in main
    effRem |-> -1,         \* remaining budget at the check in try_ffmpeg_capture
    window |-> 0,          \* window of the attempt phase in flight
    leak |-> FALSE,        \* a backend iteration began with a handle open
    lateStart |-> FALSE,   \* an attempt began with remaining <= 0.05
    cutShort |-> FALSE,    \* the for loop returned on remaining <= 0.05
    streamOk |-> FALSE,    \* try_opencv_capture returned True
    noBinary |-> FALSE,    \* shutil.which found no ffmpeg
    setBacks |-> 0 ]       \* adjustments of the system clock during the run

\* nothing of the capture has run yet
Idle ==
  /\ now = 0
  /\ accounted = 0
  /\ deadline = 0
  /\ backends = << >>
  /\ bi = 0
  /\ eff_timeout = 0
  /\ start = 0
  /\ read_window = 0
  /\ read_start = 0
  /\ handles = {}
  /\ child = "none"
  /\ ok = FALSE
  /\ proc = NoProc
  /\ exitCode = -1
  /\ marker = "none"
  /\ hist = NoHist

\* the capture does not depend on the text of the URL, only on what the
\* camera does: the run carries no URL text
Init ==
  /\ \E c \in Configs : /\ MAX_TOTAL_SECONDS = c[1]
                         /\ OPENCV_TIMEOUT_SEC = c[2]
                         /\ FFMPEG_TIMEOUT_SEC = c[3]
  /\ pc = "main"
  /\ Idle
  /\ outFile \in {"absent", "old"}
  /\ raw = << >>
  /\ rtsp = << >>

\* ---- main, lines 198-216 -------------------------------------------------
\* cargar_rtsp() returned nothing: print ERROR, exit(1)
MainNoRtsp ==
  /\ pc = "main"
  /\ pc' = "ERROR"
  /\ marker' = "ERROR"
  /\ exitCode' = ExitCodeOf("ERROR")
  /\ UNCHANGED <<config, now, accounted, deadline, locals, handles, child,
                 outFile, ok, proc, hist>>
  /\ UNCHANGED url

\* deadline = time.time() + MAX_TOTAL_SECONDS; call try_opencv_capture
MainStart ==
  /\ pc = "main"
  /\ deadline' = now + MAX_TOTAL_SECONDS
  /\ pc' = "ocv_backends"
  /\ UNCHANGED <<config, now, accounted, locals, handles, child, outFile, ok,
                 proc, hist>>
  /\ UNCHANGED output
  /\ UNCHANGED url

\* ---- try_opencv_capture, lines 98-152 ------------------------------------
\* return from try_opencv_capture with result r
\* the timers of an iteration go out of scope when it ends, by continue,
\* return or an exception that unwinds the frame
EndIteration ==
  /\ eff_timeout' = 0
  /\ start' = 0
  /\ read_window' = 0
  /\ read_start' = 0

StreamReturn(r, h) ==
  /\ ok' = r
  /\ pc' = "main_check"
  /\ hist' = [h EXCEPT !.streamRem = remaining_time(deadline),
                        !.streamOk = r]
  /\ EndIteration

\* the backend list: CAP_FFMPEG and CAP_GSTREAMER if cv2 has them, then None
OcvBackends ==
  /\ pc = "ocv_backends"
  /\ \E bl \in BackendLists : backends' = bl
  /\ bi' = 1
  /\ pc' = "ocv_top"
  /\ UNCHANGED <<config, now, accounted, deadline, timers, handles, child,
                 outFile, ok, proc, hist>>
  /\ UNCHANGED output
  /\ UNCHANGED url

\* top of the for loop: budget checks, or the end of the list
OcvTop ==
  /\ pc = "ocv_top"
  /\ LET h == [hist EXCEPT !.leak = @ \/ handles # {}]
     IN IF bi > Len(backends)
        THEN StreamReturn(FALSE, h)
        ELSE IF Exhausted(remaining_time(deadline))
        THEN StreamReturn(FALSE, [h EXCEPT !.cutShort = TRUE])
        ELSE LET eff == EffTimeout(OPENCV_TIMEOUT_SEC, remaining_time(deadline))
             IN IF Exhausted(eff)
                THEN StreamReturn(FALSE, h)
                ELSE /\ eff_timeout' = eff
                     /\ pc' = "ocv_construct"
                     /\ hist' = h
                     /\ UNCHANGED <<ok, start, read_window, read_start>>
  /\ UNCHANGED <<config, now, accounted, deadline, backends, bi, handles,
                 child, outFile, proc>>
  /\ UNCHANGED output
  /\ UNCHANGED url

\* cv2.VideoCapture(...) raised: print, continue
OcvConstructRaise ==
  /\ pc = "ocv_construct"
  /\ bi' = NextBackend(bi)
  /\ pc' = "ocv_top"
  /\ hist' = [hist EXCEPT !.outcomes = Append(@, "ConstructError")]
  /\ EndIteration
  /\ UNCHANGED <<config, now, accounted, deadline, backends, handles, child,
                 outFile, ok, proc>>
  /\ UNCHANGED output
  /\ UNCHANGED url

\* cap = cv2.VideoCapture(...); start = time.time(); opened = False
OcvConstruct ==
  /\ pc = "ocv_construct"
  /\ start' = now
  /\ handles' = handles \cup {bi}
  /\ pc' = "ocv_open"
  /\ hist' = [hist EXCEPT !.attempts = Append(@, backends[bi]),
                          !.window = eff_timeout,
                          !.lateStart = @ \/ remaining_time(deadline) <= EPS]
  /\ UNCHANGED <<config, now, accounted, deadline, backends, bi, eff_timeout,
                 read_window, read_start, child, outFile, ok, proc>>
  /\ UNCHANGED output
  /\ UNCHANGED url

\* open loop: cap.isOpened() is False
OcvNotOpened ==
  /\ pc = "ocv_open"
  /\ WindowOpen(now, start, eff_timeout)
  /\ pc' = "ocv_open_sleep"
  /\ UNCHANGED <<config, now, accounted, deadline, locals, handles, child,
                 outFile, ok, proc, hist>>
  /\ UNCHANGED output
  /\ UNCHANGED url

\* open loop: time.sleep(0.15)
OcvOpenSleep ==
  /\ pc = "ocv_open_sleep"
  /\ now' = Sleep(now, OPEN_POLL)
  /\ accounted' = accounted + (now' - now)
  /\ pc' = "ocv_open"
  /\ UNCHANGED <<config, deadline, locals, handles, child, outFile, ok, proc,
                 hist>>
  /\ UNCHANGED output
  /\ UNCHANGED url

\* open loop: cap.isOpened() is True; cap.set(...); the read window starts
OcvOpened ==
  /\ pc = "ocv_open"
  /\ WindowOpen(now, start, eff_timeout)
  /\ read_window' = ReadWindow(eff_timeout)
  /\ read_start' = now
  /\ pc' = "ocv_read"
  /\ hist' = [hist EXCEPT !.window = ReadWindow(eff_timeout)]
  /\ UNCHANGED <<config, now, accounted, deadline, backends, bi, eff_timeout,
                 start, handles, child, outFile, ok, proc>>
  /\ UNCHANGED output
  /\ UNCHANGED url

\* cap.isOpened() / cap.read() raised: nothing catches it, the run dies
\* with a traceback
OcvCallRaise ==
  /\ \/ pc = "ocv_open" /\ WindowOpen(now, start, eff_timeout)
     \/ pc = "ocv_read" /\ WindowOpen(now, read_start, read_window)
  /\ UncaughtException
  /\ EndIteration
  /\ UNCHANGED <<config, now, accounted, deadline, backends, bi, handles,
                 child, outFile, ok, proc, hist>>
  /\ UNCHANGED url

\* cap.release() raised on the open-timeout path (line 124) or after the
\* read window (line 149): nothing catches it either
OcvReleaseRaise ==
  /\ \/ pc = "ocv_open" /\ ~WindowOpen(now, start, eff_timeout)
     \/ pc = "ocv_read" /\ ~WindowOpen(now, read_start, read_window)
  /\ UncaughtException
  /\ EndIteration
  /\ UNCHANGED <<config, now, accounted, deadline, backends, bi, handles,
                 child, outFile, ok, proc, hist>>
  /\ UNCHANGED url

\* if not opened: cap.release(); continue
OcvOpenTimeout ==
  /\ pc = "ocv_open"
  /\ ~WindowOpen(now, start, eff_timeout)
  /\ handles' = ReleaseOnOpenTimeout(handles, bi)
  /\ bi' = NextBackend(bi)
  /\ pc' = "ocv_top"
  /\ hist' = [hist EXCEPT !.outcomes = Append(@, "OpenTimeout")]
  /\ EndIteration
  /\ UNCHANGED <<config, now, accounted, deadline, backends, child, outFile,
                 ok, proc>>
  /\ UNCHANGED output
  /\ UNCHANGED url

\* read loop: no frame (ret False or frame None)
OcvNoFrameYet ==
  /\ pc = "ocv_read"
  /\ WindowOpen(now, read_start, read_window)
  /\ pc' = "ocv_read_sleep"
  /\ UNCHANGED <<config, now, accounted, deadline, locals, handles, child,
                 outFile, ok, proc, hist>>
  /\ UNCHANGED output
  /\ UNCHANGED url

\* read loop: time.sleep(0.1)
OcvReadSleep ==
  /\ pc = "ocv_read_sleep"
  /\ now' = Sleep(now, READ_POLL)
  /\ accounted' = accounted + (now' - now)
  /\ pc' = "ocv_read"
  /\ UNCHANGED <<config, deadline, locals, handles, child, outFile, ok, proc,
                 hist>>
  /\ UNCHANGED output
  /\ UNCHANGED url

\* read loop: a frame; cv2.imwrite wrote it; cap.release(); return True
OcvFrameWritten ==
  /\ pc = "ocv_read"
  /\ WindowOpen(now, read_start, read_window)
  /\ outFile' = "new"
  /\ handles' = Release(handles, bi)
  /\ StreamReturn(TRUE, [hist EXCEPT !.outcomes = Append(@, "Success"),
                                     !.wroteAt = Len(hist.attempts)])
  /\ UNCHANGED <<config, now, accounted, deadline, backends, bi, child, proc>>
  /\ UNCHANGED output
  /\ UNCHANGED url

\* read loop: a frame; cv2.imwrite returned False without raising (nothing
\* or a truncated file on disk); cap.release(); return True
OcvFrameNotWritten ==
  /\ pc = "ocv_read"
  /\ WindowOpen(now, read_start, read_window)
  /\ outFile' \in {outFile, "partial"}
  /\ handles' = Release(handles, bi)
  /\ StreamReturn(TRUE, [hist EXCEPT !.outcomes = Append(@, "WriteFalse")])
  /\ UNCHANGED <<config, now, accounted, deadline, backends, bi, child, proc>>
  /\ UNCHANGED output
  /\ UNCHANGED url

\* read loop: a frame; cv2.imwrite raised; cap.release(); return False
OcvWriteFailure ==
  /\ pc = "ocv_read"
  /\ WindowOpen(now, read_start, read_window)
  /\ outFile' \in {outFile, "partial"}
  /\ handles' = Release(handles, bi)
  /\ StreamReturn(FALSE, [hist EXCEPT !.outcomes = Append(@, "WriteFailure")])
  /\ UNCHANGED <<config, now, accounted, deadline, backends, bi, child, proc>>
  /\ UNCHANGED output
  /\ UNCHANGED url

\* read loop: a frame; cv2.imwrite returned (the frame written, or False
\* and nothing or a truncated file); cap.release() at line 141 raised inside
\* the try: "except Exception" reports a write error, cap.release() at line
\* 145 succeeds; return False
OcvReleaseRaiseCaught ==
  /\ pc = "ocv_read"
  /\ WindowOpen(now, read_start, read_window)
  /\ \E f \in {outFile, "partial", "new"} :
       /\ outFile' = f
       /\ StreamReturn(FALSE,
            [hist EXCEPT !.outcomes = Append(@, "WriteFailure"),
                         !.wroteAt = IF f = "new"
                                     THEN Len(hist.attempts) ELSE @])
  /\ handles' = Release(handles, bi)
  /\ UNCHANGED <<config, now, accounted, deadline, backends, bi, child, proc>>
  /\ UNCHANGED output
  /\ UNCHANGED url

\* read loop: a frame; cv2.imwrite or cap.release() at line 141 raised, and
\* cap.release() at line 145, inside the handler, raised too: uncaught
OcvHandlerReleaseRaise ==
  /\ pc = "ocv_read"
  /\ WindowOpen(now, read_start, read_window)
  /\ outFile' \in {outFile, "partial", "new"}
  /\ UncaughtException
  /\ EndIteration
  /\ UNCHANGED <<config, now, accounted, deadline, backends, bi, handles,
                 child, ok, proc, hist>>
  /\ UNCHANGED url

\* the read window elapsed: cap.release(); next backend
OcvNoFrame ==
  /\ pc = "ocv_read"
  /\ ~WindowOpen(now, read_start, read_window)
  /\ handles' = Release(handles, bi)
  /\ bi' = NextBackend(bi)
  /\ pc' = "ocv_top"
  /\ hist' = [hist EXCEPT !.outcomes = Append(@, "NoFrameReturned")]
  /\ EndIteration
  /\ UNCHANGED <<config, now, accounted, deadline, backends, child, outFile,
                 ok, proc>>
  /\ UNCHANGED output
  /\ UNCHANGED url

\* ---- main, lines 220-222 -------------------------------------------------
MainCheck ==
  /\ pc = "main_check"
  /\ IF FallbackWanted(ok, remaining_time(deadline))
     THEN /\ pc' = "ff_which"
          /\ hist' = [hist EXCEPT !.ffCalls = @ + 1,
                                  !.mainRem = remaining_time(deadline)]
     ELSE /\ pc' = "main_final"
          /\ hist' = [hist EXCEPT !.mainRem = remaining_time(deadline)]
  /\ UNCHANGED <<config, now, accounted, deadline, locals, handles, child,
                 outFile, ok, proc>>
  /\ UNCHANGED output
  /\ UNCHANGED url

\* ---- try_ffmpeg_capture, lines 154-196 -----------------------------------
\* shutil.which found nothing: return False
FfNoBinary ==
  /\ pc = "ff_which"
  /\ ok' = FALSE
  /\ pc' = "main_final"
  /\ hist' = [hist EXCEPT !.noBinary = TRUE]
  /\ UNCHANGED <<config, now, accounted, deadline, locals, handles, child,
                 outFile, proc>>
  /\ UNCHANGED output
  /\ UNCHANGED url

\* ffmpeg found; eff_timeout = min(timeout, remaining); <= 0.05: return False
FfBudget ==
  /\ pc = "ff_which"
  /\ \E d \in CallDelays :
       LET rem == remaining_at(deadline, now + d)
           eff == EffTimeout(FFMPEG_TIMEOUT_SEC, rem)
       IN /\ now' = now + d
          /\ hist' = [hist EXCEPT !.effRem = rem]
          /\ IF Exhausted(eff)
             THEN /\ ok' = FALSE
                  /\ pc' = "main_final"
                  /\ UNCHANGED eff_timeout
             ELSE /\ eff_timeout' = eff
                  /\ pc' = "ff_spawn"
                  /\ UNCHANGED ok
  /\ UNCHANGED <<config, accounted, deadline, backends, bi, start,
                 read_window, read_start, handles, child, outFile, proc>>
  /\ UNCHANGED output
  /\ UNCHANGED url

\* subprocess.run could not start the child (except Exception): return False
FfSpawnRaise ==
  /\ pc = "ff_spawn"
  /\ ok' = FALSE
  /\ pc' = "main_final"
  /\ EndIteration
  /\ UNCHANGED <<config, now, accounted, deadline, backends, bi, handles,
                 child, outFile, proc, hist>>
  /\ UNCHANGED output
  /\ UNCHANGED url

\* subprocess.run started the child
FfSpawn ==
  /\ pc = "ff_spawn"
  /\ child' = "running"
  /\ start' = now
  /\ pc' = "ff_wait"
  /\ hist' = [hist EXCEPT !.attempts = Append(@, "process"),
                          !.spawned = @ + 1,
                          !.window = eff_timeout,
                          !.lateStart = @ \/ remaining_time(deadline) <= EPS]
  /\ UNCHANGED <<config, now, accounted, deadline, backends, bi, eff_timeout,
                 read_window, read_start, handles, outFile, ok, proc>>
  /\ UNCHANGED output
  /\ UNCHANGED url

\* what the child did to output_path (-y overwrites)
ChildFile(f) == {f, "childPartial", "new"}

\* the child exited within eff_timeout: 401 marker, returncode, file
FfExit ==
  /\ pc = "ff_wait"
  /\ \E d \in ChildRunTimes(eff_timeout), rc \in {0, 1}, un \in BOOLEAN,
        f \in ChildFile(outFile) :
       /\ now' = now + d
       /\ accounted' = accounted + d
       /\ outFile' = f
       /\ proc' = [exited |-> TRUE, timedOut |-> FALSE, rc |-> rc,
                   unauthorized |-> un]
       /\ ok' = ProcessResult(rc, un, f)
  /\ child' = "exited"
  /\ pc' = "main_final"
  /\ EndIteration
  /\ UNCHANGED <<config, deadline, backends, bi, handles, hist>>
  /\ UNCHANGED output
  /\ UNCHANGED url

\* subprocess.TimeoutExpired: the child was killed by subprocess.run
FfTimeout ==
  /\ pc = "ff_wait"
  /\ now' = now + eff_timeout
  /\ accounted' = accounted + eff_timeout
  /\ outFile' \in ChildFile(outFile)
  /\ proc' = [proc EXCEPT !.timedOut = TRUE]
  /\ child' = AfterProcessTimeout
  /\ ok' = FALSE
  /\ pc' = "main_final"
  /\ EndIteration
  /\ UNCHANGED <<config, deadline, backends, bi, handles, hist>>
  /\ UNCHANGED output
  /\ UNCHANGED url

\* ---- main, lines 224-232 -------------------------------------------------
MainFinal ==
  /\ pc = "main_final"
  /\ pc' = FinalState(ok, outFile)
  /\ marker' = FinalState(ok, outFile)
  /\ exitCode' = ExitCodeOf(FinalState(ok, outFile))
  /\ UNCHANGED <<config, now, accounted, deadline, locals, handles, child,
                 outFile, ok, proc, hist>>
  /\ UNCHANGED url

Next ==
  \/ MainNoRtsp
  \/ MainStart
  \/ OcvBackends
  \/ OcvTop
  \/ OcvConstructRaise
  \/ OcvConstruct
  \/ OcvNotOpened
  \/ OcvOpenSleep
  \/ OcvOpened
  \/ OcvCallRaise
  \/ OcvReleaseRaise
  \/ OcvOpenTimeout
  \/ OcvNoFrameYet
  \/ OcvReadSleep
  \/ OcvFrameWritten
  \/ OcvFrameNotWritten
  \/ OcvWriteFailure
  \/ OcvReleaseRaiseCaught
  \/ OcvHandlerReleaseRaise
  \/ OcvNoFrame
  \/ MainCheck
  \/ FfNoBinary
  \/ FfBudget
  \/ FfSpawnRaise
  \/ FfSpawn
  \/ FfExit
  \/ FfTimeout
  \/ MainFinal

Spec == Init /\ [][Next]_vars

\* The interpreter keeps executing the run: some step is always taken
\* while one is possible.
FairSpec == Spec /\ WF_vars(Next)

\* ---- time.time() is the system clock -------------------------------------
\* remaining_time and both window loops read time.time() (lines 87, 114,
\* 117, 135, 136, 216): an adjustment of the system clock (NTP step, an
\* operator setting the time) moves every one of those readings.  Time
\* already slept is not undone.
ClockSetBack ==
  /\ pc \notin {"main", "OK", "ERROR", "CRASH"}
  /\ hist.setBacks < MaxSetBacks
  /\ \E k \in 1..MaxSetBack : now' = now - k
  /\ hist' = [hist EXCEPT !.setBacks = @ + 1]
  /\ UNCHANGED <<config, pc, accounted, deadline, locals, handles, child,
                 outFile, ok, proc, output>>
  /\ UNCHANGED url

\* runs with a short watchdog window
WallClockInit ==
  /\ Init
  /\ MAX_TOTAL_SECONDS <= MaxWindow

WallClockNext ==
  \/ Next
  \/ ClockSetBack

WallClockSpec == WallClockInit /\ [][WallClockNext]_vars

\* ---- sanitize_rtsp, lines 71-77 ------------------------------------------
\* A text is a sequence of one-character strings.
Colon == <<":">>
DoubleColon == <<":", ":">>
Port == <<":", "5", "5", "4">>
PortTwice == Port \o Port

\* the pieces URL texts are put together from: a colon, the digits of the
\* default port, another character, white space
Segments == { <<":">>, <<"5", "5", "4">>, <<"a">>, <<" ">> }

RECURSIVE Flatten(_)
Flatten(ss) == IF ss = << >> THEN << >> ELSE Head(ss) \o Flatten(Tail(ss))

Urls ==
  UNION { { Flatten(ss) : ss \in [1..n -> Segments] } : n \in 0..MaxSegments }

\* pat occurs in s
Contains(s, pat) ==
  \E i \in 1..(Len(s) - Len(pat) + 1) : SubSeq(s, i, i + Len(pat) - 1) = pat

\* str.strip(): leading and trailing white space removed
RECURSIVE StripLeft(_)
StripLeft(s) ==
  IF s # << >> /\ Head(s) = " " THEN StripLeft(Tail(s)) ELSE s

RECURSIVE StripRight(_)
StripRight(s) ==
  IF s # << >> /\ s[Len(s)] = " "
  THEN StripRight(SubSeq(s, 1, Len(s) - 1))
  ELSE s

Strip(s) == StripRight(StripLeft(s))

\* str.replace(pat, new) and re.sub of a literal pattern: one pass from the
\* left over the non-overlapping occurrences; the text put in is not
\* scanned again
RECURSIVE Replace(_, _, _)
Replace(s, pat, new) ==
  IF Len(s) < Len(pat) THEN s
  ELSE IF SubSeq(s, 1, Len(pat)) = pat
       THEN new \o Replace(SubSeq(s, Len(pat) + 1, Len(s)), pat, new)
       ELSE <<Head(s)>> \o Replace(Tail(s), pat, new)

\* a run that stops once main has the sanitized URL
SanitizeInit ==
  /\ MAX_TOTAL_SECONDS = DEFAULT_TOTAL
  /\ OPENCV_TIMEOUT_SEC = DEFAULT_OPENCV
  /\ FFMPEG_TIMEOUT_SEC = DEFAULT_FFMPEG
  /\ pc = "sanitize"
  /\ Idle
  /\ outFile = "absent"
  /\ raw \in Urls
  /\ rtsp = raw

NotUrl == <<config, now, accounted, deadline, locals, handles, child,
            outFile, ok, proc, output, hist>>

\* if not rtsp: return rtsp
SanitizeEmpty ==
  /\ pc = "sanitize"
  /\ rtsp = << >>
  /\ pc' = "sanitized"
  /\ UNCHANGED <<NotUrl, url>>

\* rtsp = rtsp.strip()
SanitizeStrip ==
  /\ pc = "sanitize"
  /\ rtsp # << >>
  /\ rtsp' = Strip(rtsp)
  /\ pc' = "sanitize_colons"
  /\ UNCHANGED <<NotUrl, raw>>

\* rtsp = rtsp.replace("::", ":")
SanitizeColons ==
  /\ pc = "sanitize_colons"
  /\ rtsp' = Replace(rtsp, DoubleColon, Colon)
  /\ pc' = "sanitize_port"
  /\ UNCHANGED <<NotUrl, raw>>

\* rtsp = re.sub(r":554:554", ":554", rtsp); return rtsp
SanitizePort ==
  /\ pc = "sanitize_port"
  /\ rtsp' = Replace(rtsp, PortTwice, Port)
  /\ pc' = "sanitized"
  /\ UNCHANGED <<NotUrl, raw>>

SanitizeNext ==
  \/ SanitizeEmpty
  \/ SanitizeStrip
  \/ SanitizeColons
  \/ SanitizePort

SanitizeSpec == SanitizeInit /\ [][SanitizeNext]_vars

Terminal == pc \in {"OK", "ERROR"}
Returned == pc \in {"main_check", "ff_which", "ff_spawn", "ff_wait",
                    "main_final", "OK", "ERROR"}

\* ---- C1 ------------------------------------------------------------------
\* C1: every run that keeps executing reaches the terminal state OK or ERROR,
\* whatever the backends and the child do (a handle that is never ready, reads
\* that never return a frame, a child that never exits by itself), unless one
\* of the library calls does not return normally (the run then dies in CRASH).
C1_Terminates == <>(Terminal \/ pc = "CRASH")

\* a run in which no handle was ever ready and the child hung until it was
\* killed has ended
C1_Witness ==
  /\ Terminal
  /\ proc.timedOut
  /\ hist.outcomes # << >>
  /\ \A i \in 1..Len(hist.outcomes) : hist.outcomes[i] = "OpenTimeout"

\* ---- C2 ------------------------------------------------------------------
\* C2: when the run has ended, the time spent in poll sleeps and in the child
\* wait since the deadline was created is at most the watchdog window plus one
\* poll interval plus the window of the attempt phase that was in flight (the
\* backend's open window or read window, or the process wait).
C2_BoundedCompletion ==
  Terminal => accounted <= MAX_TOTAL_SECONDS + OPEN_POLL + hist.window

\* a run with the default timeouts that ended after its deadline
C2_Witness ==
  /\ Terminal
  /\ MAX_TOTAL_SECONDS = DEFAULT_TOTAL
  /\ accounted > MAX_TOTAL_SECONDS

\* ---- C3 ------------------------------------------------------------------
\* C3 as written: the time spent across both strategies never exceeds the
\* watchdog window by more than one polling interval (0.15 s).
C3_OnePollOverrun == accounted <= MAX_TOTAL_SECONDS + OPEN_POLL

\* C3 as amended: the time spent across both strategies never exceeds the
\* watchdog window by more than one polling interval plus one frame-read
\* window, min(1.5 s, per-backend timeout).
C3_PollPlusReadWindow ==
  accounted <= MAX_TOTAL_SECONDS + OPEN_POLL
                 + Min(READ_WINDOW_MAX, OPENCV_TIMEOUT_SEC)

\* the last backend opened late, its read loop ran out, and the run ended
\* more than one polling interval after the deadline
C3_Witness ==
  /\ Terminal
  /\ hist.outcomes # << >>
  /\ hist.outcomes[Len(hist.outcomes)] = "NoFrameReturned"
  /\ accounted > MAX_TOTAL_SECONDS + OPEN_POLL

\* ---- C4 ------------------------------------------------------------------
\* C4: once a backend has opened, returned a frame and the frame is written,
\* that attempt stays the last one of the run: no later backend is opened,
\* try_ffmpeg_capture is not entered and no child is spawned.
C4_ShortCircuit ==
  hist.wroteAt > 0 =>
    /\ Len(hist.attempts) = hist.wroteAt
    /\ hist.ffCalls = 0
    /\ hist.spawned = 0

\* ---- C5 ------------------------------------------------------------------
AfterMainCheck == pc \in {"ff_which", "ff_spawn", "ff_wait", "main_final",
                          "OK", "ERROR"}

AllBackendsTimedOutOrEmpty ==
  /\ Len(hist.outcomes) = Len(backends)
  /\ \A i \in 1..Len(hist.outcomes) :
       hist.outcomes[i] \in {"OpenTimeout", "NoFrameReturned"}

\* C5: if every backend of the list ended in an open timeout or without a
\* frame and more than 0.05 s remained when try_opencv_capture returned, then
\* try_ffmpeg_capture is invoked, and it is invoked once.
C5_FallbackOnce ==
  /\ hist.ffCalls <= 1
  /\ (AfterMainCheck /\ hist.streamRem # -1 /\ AllBackendsTimedOutOrEmpty
        /\ hist.streamRem > EPS)
       => hist.ffCalls = 1

\* three backends timed out on open with 0.1 s left, and the fallback ran
C5_Witness ==
  /\ Terminal
  /\ hist.outcomes = <<"OpenTimeout", "OpenTimeout", "OpenTimeout">>
  /\ hist.streamRem = EPS + 1
  /\ hist.ffCalls = 1

\* ---- C6 ------------------------------------------------------------------
\* C6: if at most 0.05 s remained at the check in main, or at the
\* effective-timeout check of try_ffmpeg_capture, no child process is spawned.
C6_NoSpawnWhenExhausted ==
  ( \/ (hist.mainRem # -1 /\ hist.mainRem <= EPS)
    \/ (hist.effRem # -1 /\ hist.effRem <= EPS) )
   => (hist.spawned = 0 /\ child = "none")

\* main saw more than 0.05 s, shutil.which used it up, and
\* try_ffmpeg_capture returned at its own check without a child
C6_Witness ==
  /\ Terminal
  /\ hist.mainRem > EPS
  /\ hist.effRem # -1
  /\ hist.effRem <= EPS
  /\ FFMPEG_TIMEOUT_SEC > EPS
  /\ hist.spawned = 0

\* ---- C7 ------------------------------------------------------------------
\* C7: when the child exited and its stderr holds "401 Unauthorized", the
\* process strategy reports failure and the run ends in ERROR, whatever the
\* exit code and whether or not the output file exists.
C7_CredentialsRejected ==
  (proc.exited /\ proc.unauthorized) => (~ok /\ pc \in {"main_final", "ERROR"})

\* exit code 0, output file written, 401 in stderr: ERROR
C7_Witness ==
  /\ pc = "ERROR"
  /\ proc.exited
  /\ proc.unauthorized
  /\ proc.rc = 0
  /\ outFile = "new"

\* ---- C8 ------------------------------------------------------------------
\* C8: after try_opencv_capture has returned from a call in which a backend
\* timed out on open, no stream handle is open (and no child exists at that
\* return); after try_ffmpeg_capture has returned from a process timeout, the
\* child is not running and no stream handle is open.
C8_NothingAliveAfterTimeout ==
  /\ (Returned /\ \E i \in 1..Len(hist.outcomes) :
                    hist.outcomes[i] = "OpenTimeout")
       => handles = {}
  /\ pc = "main_check" => child = "none"
  /\ proc.timedOut => (pc \in {"main_final", "OK", "ERROR"}
                        /\ child = "killed" /\ handles = {})

\* an open timeout and then a process timeout, the child killed
C8_Witness ==
  /\ Terminal
  /\ proc.timedOut
  /\ child = "killed"
  /\ hist.outcomes # << >>
  /\ hist.outcomes[1] = "OpenTimeout"

\* ---- C9 ------------------------------------------------------------------
\* C9: every handle opened by try_opencv_capture is released before the next
\* backend is tried and before the function is left, on every exit path,
\* an exception raised by isOpened, read or release included.
C9_ReleasedOnEveryPath ==
  /\ ~hist.leak
  /\ (Returned \/ pc = "CRASH") => handles = {}

\* ---- C10 -----------------------------------------------------------------
\* C10: whenever a run ends in ERROR, no file is present at the output path.
C10_NoFileOnError == pc = "ERROR" => outFile = "absent"

\* C11: every run of main ends either with exit code 0 and the stdout
\* marker OK, after a strategy succeeded, or with exit code 1 and the marker
\* ERROR; exit code 0 never goes with ERROR and exit code 1 is never reached
\* without the ERROR marker.
C11_ExitCodeMatchesMarker ==
  exitCode # -1 =>
    \/ exitCode = 0 /\ marker = "OK" /\ ok
    \/ exitCode = 1 /\ marker = "ERROR"

\* C12: no exception raised by a stream backend call or by running the child
\* process leaves try_opencv_capture, try_ffmpeg_capture or main unhandled:
\* the run never dies with a traceback.
C12_NoUnhandledException ==
  pc # "CRASH"

\* the attempts of try_opencv_capture among the attempts started
StreamAttempts == SelectSeq(hist.attempts, LAMBDA a : a # "process")

\* C13: no attempt is started while the remaining budget is at or below
\* epsilon (0.05 s): no stream handle is constructed and no child is spawned
\* in that state, and once the stream strategy sees it at the top of a backend
\* iteration it returns without trying any backend still in the list.
C13_NoStartWhenExhausted ==
  /\ ~hist.lateStart
  /\ hist.cutShort =>
       /\ Returned
       /\ Len(hist.outcomes) < Len(backends)
       /\ Len(StreamAttempts) <= Len(hist.outcomes)

C13_Witness ==
  /\ Terminal
  /\ hist.cutShort
  /\ Len(StreamAttempts) = 1
  /\ Len(backends) = 3
  /\ hist.spawned = 0

\* C14: the deadline is set once in main and keeps that value at every later
\* point of the run, in both strategies (it is never extended), and
\* remaining_time(deadline) is max(0, deadline - now), never negative.
C14_DeadlineFixed ==
  [][ /\ pc # "main" => deadline' = deadline
      /\ remaining_time(deadline)' >= 0
      /\ remaining_time(deadline)' = Max(0, deadline' - now') ]_vars

C14_Witness ==
  /\ pc = "main_final"
  /\ hist.spawned = 1
  /\ Len(StreamAttempts) >= 1
  /\ deadline = MAX_TOTAL_SECONDS
  /\ now = deadline
  /\ remaining_time(deadline) = 0

\* C15: the remaining budget is computed against a monotonic clock that
\* adjustments of the system clock cannot move: across successive calls in
\* one run remaining_time(deadline) never increases, also when the system
\* clock is set backwards during the run.
C15_RemainingNeverIncreases ==
  [][pc # "main" =>
       remaining_time(deadline)' <= remaining_time(deadline)]_vars

\* C16: whenever try_opencv_capture reports success the run goes straight to
\* the terminal OK state: no fallback is entered and the run never ends in
\* ERROR.
C16_StreamSuccessIsOK ==
  hist.streamOk =>
    /\ pc \in {"main_check", "main_final", "OK"}
    /\ hist.ffCalls = 0

\* priority of an attempt: CAP_FFMPEG, CAP_GSTREAMER, default, then ffmpeg
Rank(a) ==
  CASE a = "FFMPEG" -> 1
    [] a = "GSTREAMER" -> 2
    [] a = "default" -> 3
    [] a = "process" -> 4

\* a backend's handle exists and is being polled or read
InStreamAttempt ==
  pc \in {"ocv_open", "ocv_open_sleep", "ocv_read", "ocv_read_sleep"}

\* C17: the attempts started in a run follow the fixed order FFMPEG backend,
\* GStreamer backend, default backend, external process: a backend is opened
\* only after every available backend of higher priority has been tried, and
\* no stream handle is opened once the process fallback has been invoked.
C17_FixedOrder ==
  /\ \A i, j \in 1..Len(hist.attempts) :
       i < j => Rank(hist.attempts[i]) < Rank(hist.attempts[j])
  /\ InStreamAttempt =>
       /\ hist.attempts[Len(hist.attempts)] = backends[bi]
       /\ Len(hist.outcomes) = bi - 1
       /\ \A k \in 1..(bi - 1) : Rank(backends[k]) < Rank(backends[bi])
  /\ hist.ffCalls > 0 => handles = {} /\ ~InStreamAttempt

C17_Witness ==
  /\ Terminal
  /\ hist.attempts = <<"FFMPEG", "GSTREAMER", "default", "process">>

\* stream handles open plus child processes alive
InFlight == Cardinality(handles) + (IF child = "running" THEN 1 ELSE 0)

\* C18: at every point of a run at most one attempt is in flight: the number
\* of open stream handles plus live child processes is at most 1.
C18_AtMostOneInFlight ==
  InFlight <= 1

C18_Witness ==
  /\ pc = "ff_wait"
  /\ child = "running"
  /\ InFlight = 1
  /\ Len(StreamAttempts) = 3

\* C19: nothing is retried: each backend is opened at most once, the child
\* process is spawned at most once whatever its outcome, and once the run has
\* reached OK or ERROR no further attempt is made.
C19_NothingRetried ==
  /\ \A i, j \in 1..Len(hist.attempts) :
       i # j => hist.attempts[i] # hist.attempts[j]
  /\ hist.ffCalls <= 1
  /\ hist.spawned <= 1
  /\ Terminal => InFlight = 0 /\ ~ENABLED Next

C19_Witness ==
  /\ pc = "ERROR"
  /\ hist.spawned = 1
  /\ proc.exited
  /\ proc.rc = 1
  /\ Len(StreamAttempts) = 3

\* C20: if the ffmpeg binary is not found on the search path,
\* try_ffmpeg_capture returns failure at once without spawning a child,
\* whatever budget remains, and the run ends in ERROR.
C20_NoBinaryNoSpawn ==
  hist.noBinary =>
    /\ hist.spawned = 0
    /\ child = "none"
    /\ ~ok
    /\ remaining_time(deadline) = hist.mainRem
    /\ pc \in {"main_final", "ERROR"}
    /\ pc = "ERROR" => marker = "ERROR" /\ exitCode = 1

C20_Witness ==
  /\ pc = "ERROR"
  /\ hist.noBinary
  /\ hist.mainRem >= DEFAULT_FFMPEG
  /\ outFile = "old"

\* try_ffmpeg_capture has returned after the child exited by itself
ChildExited == proc.exited /\ pc \in {"main_final", "OK", "ERROR"}

\* C21: when the child exits within its bound and its error output does not
\* carry the 401 marker, try_ffmpeg_capture reports success if and only if
\* the exit code is 0 and the output file exists; every other combination of
\* exit code and file existence is a failure.
C21_SuccessIffZeroAndFile ==
  (ChildExited /\ ~proc.unauthorized) =>
    (ok <=> (proc.rc = 0 /\ Exists(outFile)))

C21_Witness ==
  /\ ChildExited
  /\ ~proc.unauthorized
  /\ proc.rc = 0
  /\ ~Exists(outFile)
  /\ pc = "ERROR"

\* the open window of the backend in flight has closed with the handle not
\* ready
OpenWindowClosed == pc = "ocv_open" /\ ~WindowOpen(now, start, eff_timeout)

\* C22: when a backend's handle is not ready within
\* eff_timeout = min(timeout, remaining budget), the attempt ends as an open
\* timeout, the handle is released and the strategy goes on to the next
\* backend of the list: the open timeout does not end the stream strategy.
C22_OpenTimeoutProceeds ==
  [][OpenWindowClosed =>
       /\ pc' = "ocv_top"
       /\ bi' = bi + 1
       /\ handles' = handles \ {bi}
       /\ hist'.outcomes = Append(hist.outcomes, "OpenTimeout")]_vars

\* a backend's handle opened and its read loop is running
Reading == pc \in {"ocv_read", "ocv_read_sleep"}

\* the read loop is about to call cap.read()
ReadStarts == pc = "ocv_read" /\ WindowOpen(now, read_start, read_window)

\* C23: for every backend whose handle opened, the read window is at most
\* 1.5 s and at most the budget remaining when reading starts, so the read
\* loop starts no read after the deadline has passed.
C23_ReadWindowWithinBudget ==
  /\ Reading =>
       /\ read_window <= READ_WINDOW_MAX
       /\ read_window <= remaining_at(deadline, read_start)
  /\ ReadStarts => now <= deadline

\* C23 amended: the read window is at most 1.5 s and at most the budget that
\* remained at the top of the backend iteration, before the open loop;
\* reading begins before the deadline, and a read may start after the
\* deadline but less than one read window after it.
C23_ReadWindowWithinIterationBudget ==
  /\ Reading =>
       /\ read_window <= READ_WINDOW_MAX
       /\ read_window <= remaining_at(deadline, start)
       /\ read_start < deadline
  /\ ReadStarts => now < deadline + read_window

C23_Witness ==
  /\ ReadStarts
  /\ now > deadline
  /\ read_window > remaining_at(deadline, read_start)
  /\ MAX_TOTAL_SECONDS = DEFAULT_TOTAL

\* the last backend iteration read a frame and cv2.imwrite did not persist
\* it: it raised, or it returned False
PersistFailed ==
  /\ hist.outcomes # << >>
  /\ hist.outcomes[Len(hist.outcomes)] \in {"WriteFailure", "WriteFalse"}
  /\ hist.wroteAt = 0

\* C24: if persisting a frame that was read fails, try_opencv_capture
\* releases the handle and ends with failure at once: no backend later in
\* the list is opened after a write failure.
C24_WriteFailureEndsStrategy ==
  PersistFailed =>
    /\ Returned
    /\ handles = {}
    /\ ~hist.streamOk
    /\ Len(StreamAttempts) <= Len(hist.outcomes)

\* the backend list has been built (lines 91-96)
ListBuilt == bi >= 1

\* backends the runtime supports: the members of the list
Supported == { backends[k] : k \in 1..Len(backends) }

\* C25: a backend the runtime does not support is never opened and does not
\* end the stream strategy: the backends that remain are tried in their
\* order, and the default backend is always in the list.
C25_UnsupportedSkipped ==
  ListBuilt =>
    /\ backends # << >>
    /\ backends[Len(backends)] = "default"
    /\ \A i \in 1..Len(StreamAttempts) : StreamAttempts[i] \in Supported
    /\ \A i, j \in 1..Len(StreamAttempts) :
         i < j => Rank(StreamAttempts[i]) < Rank(StreamAttempts[j])
    /\ InStreamAttempt => hist.attempts[Len(hist.attempts)] = backends[bi]

C25_Witness ==
  /\ Terminal
  /\ backends = <<"GSTREAMER", "default">>
  /\ StreamAttempts = <<"GSTREAMER", "default">>
  /\ hist.outcomes = <<"OpenTimeout", "NoFrameReturned">>

\* C26: for every child spawned, the network I/O timeout passed to it
\* (-rw_timeout, 2 s) is at most the timeout that bounds the wait for it,
\* eff_timeout = min(FFMPEG_TIMEOUT_SEC, remaining budget), for every
\* configured process timeout and every remaining budget above epsilon.
C26_IoTimeoutWithinWait ==
  (pc = "ff_wait" /\ child = "running") => RW_TIMEOUT <= eff_timeout

\* C27: a child process is never alive more than
\* eff_timeout = min(FFMPEG_TIMEOUT_SEC, budget remaining at spawn) after it
\* was spawned: when the bound is exceeded it is killed, so no child is alive
\* after the deadline of the run.
C27_ChildBoundedByEffTimeout ==
  /\ child = "running" =>
       /\ pc = "ff_wait"
       /\ now = start
       /\ eff_timeout <= FFMPEG_TIMEOUT_SEC
       /\ start + eff_timeout <= deadline
  /\ child \in {"exited", "killed"} => now <= deadline
  /\ proc.timedOut => child = "killed"

C27_Witness ==
  /\ pc = "main_final"
  /\ proc.timedOut
  /\ child = "killed"
  /\ now = deadline
  /\ hist.effRem < FFMPEG_TIMEOUT_SEC

\* C28: for every input text, the result of sanitize_rtsp holds no "::" and
\* no ":554:554", inputs with three or more colons in a row or three or
\* more repetitions of ":554" included.
C28_NoDuplicateLeft ==
  pc = "sanitized" =>
    /\ ~Contains(rtsp, DoubleColon)
    /\ ~Contains(rtsp, PortTwice)

\* C29: whenever a run ends in OK, a file exists at the output path at the
\* moment OK is reported.
C29_FileExistsOnOK ==
  pc = "OK" => (Exists(outFile) /\ marker = "OK" /\ exitCode = 0)

C29_Witness ==
  /\ pc = "OK"
  /\ Exists(outFile)
  /\ hist.spawned = 1
  /\ proc.rc = 0

\* C30: whenever a run ends in OK, the file at the output path was written
\* during that run, by a frame write of a stream backend that succeeded or
\* by the child process; a file left there by an earlier run is never what
\* makes the run report OK.
C30_FileWrittenThisRun ==
  pc = "OK" => outFile \in {"new", "childPartial"}

=============================================================================
